---- MODULE Spec2Model ----
(***************************************************************************)
(* Model of r2r_redis_visualization (src/src/main.rs): the metadata        *)
(* decoder decode_metadata, the start-up sequence of main, the command     *)
(* channel to the state-manager actor and the render loop                  *)
(* visualization_server.                                                   *)
(*                                                                         *)
(* Floating point values are modelled symbolically: a float is the string  *)
(* naming its value, and the operations the program applies to floats      *)
(* (comparison with 0.0, the casts f64 -> f32 and f32 -> f64) are          *)
(* operators over these names.                                             *)
(***************************************************************************)
EXTENDS Integers, Sequences, FiniteSets, TLC

(***************************************************************************)
(* Bounds of the model.                                                    *)
(***************************************************************************)
\* the ROS clock stops advancing at this reading
MaxClock == 1

\* a map given to decode_metadata on its own has at most this many entries
MaxEntries == 2

(***************************************************************************)
(* Program constants.                                                      *)
(***************************************************************************)
\* mpsc::channel(32)
ChannelCapacity == 32
\* lifetime: Duration { sec: 2, nanosec: 0 }
MarkerLifetimeSec == 2
\* type_: 2 of the zone marker (sphere)
ZoneMarkerType == 2
\* mesh_type: 10 of PotentialTransformMetadata::default
DefaultMeshType == 10

(***************************************************************************)
(* Floats.                                                                 *)
(***************************************************************************)
\* the f64 values the model draws metadata from
F64Vals == {"0.0", "-0.0", "0.5", "2.5", "0.1", "1e-60", "NaN"}

\* `x as f32` for an f64 x: rounds to the nearest f32; 1e-60 is below the
\* smallest f32 subnormal and becomes 0.0, 0.1 is not representable
CastF32(x) ==
    CASE x = "0.0"   -> "0.0"
      [] x = "-0.0"  -> "-0.0"
      [] x = "0.5"   -> "0.5"
      [] x = "2.5"   -> "2.5"
      [] x = "0.1"   -> "0.1f32"
      [] x = "1e-60" -> "0.0"
      [] x = "NaN"   -> "NaN"

\* `x as f64` for an f32 x: exact
CastF64(x) ==
    CASE x = "0.1f32"   -> "0.100000001490116"
      [] x = "0.001f32" -> "0.00100000004749745"
      [] OTHER          -> x

\* `x == 0.0` on floats: true of both zeros, false of NaN
FloatIsZero(x) == x \in {"0.0", "-0.0"}

(***************************************************************************)
(* SPValue, the dynamically typed value of micro_sp as main.rs matches it. *)
(* Every value carries all fields, so that any two values compare.         *)
(***************************************************************************)
SPBlank == [tag |-> "UNKNOWN", s |-> "", b |-> FALSE, i |-> <<0, 0>>,
            f |-> "0.0", a |-> <<>>]
SPString(s)  == [SPBlank EXCEPT !.tag = "String", !.s = s]
SPBool(b)    == [SPBlank EXCEPT !.tag = "Bool", !.b = b]
\* an i64 is the pair <<hi, lo>> of its value hi * 2^31 + lo, 0 <= lo < 2^31
SPInt64(hi, lo) == [SPBlank EXCEPT !.tag = "Int64", !.i = <<hi, lo>>]
SPFloat64(f) == [SPBlank EXCEPT !.tag = "Float64", !.f = f]
SPArray(a)   == [SPBlank EXCEPT !.tag = "Array", !.a = a]
\* SPValue::String(StringOrUnknown::UNKNOWN) and the like: a typed value
\* that is unknown
SPUnknownOf(t) == [SPBlank EXCEPT !.tag = t \o "/UNKNOWN"]

\* MapOrUnknown: UNKNOWN, or a map given as its sequence of <<key, value>>
MapUnknown == [known |-> FALSE, entries |-> <<>>]
MapOf(entries) == [known |-> TRUE, entries |-> entries]

(***************************************************************************)
(* PotentialTransformMetadata and decode_metadata.                         *)
(***************************************************************************)
\* Option<T>: None, or Some(v)
None == [some |-> FALSE, v |-> <<>>]
Some(v) == [some |-> TRUE, v |-> <<v>>]

\* the defaults a derived Default would give: zeros
DefaultMetadataDerived ==
    [ next_frame     |-> None,
      frame_type     |-> None,
      visualize_mesh |-> FALSE,
      visualize_zone |-> FALSE,
      zone           |-> "0.0",
      mesh_type      |-> 0,
      mesh_path      |-> None,
      mesh_scale     |-> "0.0",
      mesh_r         |-> "0.0",
      mesh_g         |-> "0.0",
      mesh_b         |-> "0.0",
      mesh_a         |-> "0.0" ]

DefaultMetadata ==
    [ next_frame     |-> None,
      frame_type     |-> None,
      visualize_mesh |-> FALSE,
      visualize_zone |-> FALSE,
      zone           |-> "0.0",
      mesh_type      |-> DefaultMeshType,
      mesh_path      |-> None,
      mesh_scale     |-> "0.001f32",
      mesh_r         |-> "1.0",
      mesh_g         |-> "1.0",
      mesh_b         |-> "1.0",
      mesh_a         |-> "1.0" ]

\* i64 -> i32 by try_into: Ok only inside the i32 range -2^31 .. 2^31 - 1
FitsI32(i) == i[1] \in {-1, 0}

\* the i32 that try_into yields for an i64 that fits
I32Of(i) == IF i[1] = 0 THEN i[2] ELSE (i[2] - 2147483647) - 1

\* the elements of an array taken as strings without the test of their tag
StringSetOfAll(arr) == { arr[k].s : k \in 1..Len(arr) }

\* the strings of the String elements of an array, as a set
StringSetOf(arr) ==
    { arr[k].s : k \in { j \in 1..Len(arr) : arr[j].tag = "String" } }

\* one iteration of the loop over the map's entries: the match on the key
DecodeEntry(metadata, key_sp, sp_value) ==
    IF key_sp.tag # "String" THEN metadata
    ELSE
    CASE key_sp.s = "next_frame" ->
           IF sp_value.tag = "Array" /\ StringSetOf(sp_value.a) # {}
           THEN [metadata EXCEPT !.next_frame = Some(StringSetOf(sp_value.a))]
           ELSE metadata
      [] key_sp.s = "frame_type" ->
           IF sp_value.tag = "String"
           THEN [metadata EXCEPT !.frame_type = Some(sp_value.s)]
           ELSE metadata
      [] key_sp.s = "visualize_mesh" ->
           IF sp_value.tag = "Bool"
           THEN [metadata EXCEPT !.visualize_mesh = sp_value.b]
           ELSE metadata
      [] key_sp.s = "visualize_zone" ->
           IF sp_value.tag = "Bool"
           THEN [metadata EXCEPT !.visualize_zone = sp_value.b]
           ELSE metadata
      [] key_sp.s = "zone" ->
           IF sp_value.tag = "Float64"
           THEN [metadata EXCEPT !.zone = sp_value.f]
           ELSE metadata
      [] key_sp.s = "mesh_type" ->
           IF sp_value.tag = "Int64" /\ FitsI32(sp_value.i)
           THEN [metadata EXCEPT !.mesh_type = I32Of(sp_value.i)]
           ELSE metadata
      [] key_sp.s = "mesh_path" ->
           IF sp_value.tag = "String"
           THEN [metadata EXCEPT !.mesh_path = Some(sp_value.s)]
           ELSE metadata
      [] key_sp.s = "mesh_scale" ->
           IF sp_value.tag = "Float64"
           THEN [metadata EXCEPT !.mesh_scale = CastF32(sp_value.f)]
           ELSE metadata
      [] key_sp.s = "mesh_r" ->
           IF sp_value.tag = "Float64"
           THEN [metadata EXCEPT !.mesh_r = CastF32(sp_value.f)]
           ELSE metadata
      [] key_sp.s = "mesh_g" ->
           IF sp_value.tag = "Float64"
           THEN [metadata EXCEPT !.mesh_g = CastF32(sp_value.f)]
           ELSE metadata
      [] key_sp.s = "mesh_b" ->
           IF sp_value.tag = "Float64"
           THEN [metadata EXCEPT !.mesh_b = CastF32(sp_value.f)]
           ELSE metadata
      [] key_sp.s = "mesh_a" ->
           IF sp_value.tag = "Float64"
           THEN [metadata EXCEPT !.mesh_a = CastF32(sp_value.f)]
           ELSE metadata
      [] OTHER -> metadata

\* the keys decode_metadata matches, each with the tag its value must have
RecognizedKeys ==
    {"next_frame", "frame_type", "visualize_mesh", "visualize_zone", "zone",
     "mesh_type", "mesh_path", "mesh_scale", "mesh_r", "mesh_g", "mesh_b",
     "mesh_a"}

ExpectedTag(key) ==
    CASE key = "next_frame"                         -> "Array"
      [] key \in {"frame_type", "mesh_path"}        -> "String"
      [] key \in {"visualize_mesh", "visualize_zone"} -> "Bool"
      [] key = "mesh_type"                          -> "Int64"
      [] OTHER                                      -> "Float64"

\* an entry with a recognized key whose value has another tag than expected
Mismatch(entry) ==
    /\ entry[1].tag = "String"
    /\ entry[1].s \in RecognizedKeys
    /\ entry[2].tag # ExpectedTag(entry[1].s)

\* the loop left at the first entry whose value has the wrong tag
RECURSIVE DecodeFromStopAtMismatch(_, _, _)
DecodeFromStopAtMismatch(metadata, entries, k) ==
    IF k > Len(entries) \/ Mismatch(entries[k]) THEN metadata
    ELSE DecodeFromStopAtMismatch(
             DecodeEntry(metadata, entries[k][1], entries[k][2]),
             entries, k + 1)

\* the loop over the entries from the k-th on
RECURSIVE DecodeFrom(_, _, _)
DecodeFrom(metadata, entries, k) ==
    IF k > Len(entries) THEN metadata
    ELSE DecodeFrom(DecodeEntry(metadata, entries[k][1], entries[k][2]),
                    entries, k + 1)

decode_metadata(map_value) ==
    IF ~map_value.known THEN DefaultMetadata
    ELSE DecodeFrom(DefaultMetadata, map_value.entries, 1)


(***************************************************************************)
(* The data the program runs on.                                           *)
(***************************************************************************)
\* child frame identifiers, the keys of the transform store
FrameIds == {"tool0", "box"}

\* metadata maps of the scenarios
MetaZone        == MapOf(<< <<SPString("visualize_zone"), SPBool(TRUE)>>,
                            <<SPString("zone"), SPFloat64("0.5")>> >>)
MetaZoneFlagOnly == MapOf(<< <<SPString("visualize_zone"), SPBool(TRUE)>> >>)
MetaZoneSizeOnly == MapOf(<< <<SPString("zone"), SPFloat64("0.5")>> >>)
MetaMeshFlagOnly == MapOf(<< <<SPString("visualize_mesh"), SPBool(TRUE)>> >>)
MetaMeshPathOnly == MapOf(<< <<SPString("mesh_path"), SPString("box.stl")>> >>)
\* zone stored as a string, together with a complete mesh description
MetaZoneAsString == MapOf(<< <<SPString("visualize_zone"), SPBool(TRUE)>>,
                             <<SPString("zone"), SPString("0.5")>>,
                             <<SPString("visualize_mesh"), SPBool(TRUE)>>,
                             <<SPString("mesh_path"), SPString("box.stl")>>,
                             <<SPString("mesh_scale"), SPFloat64("0.0")>> >>)
MetaBoth        == MapOf(<< <<SPString("visualize_mesh"), SPBool(TRUE)>>,
                            <<SPString("mesh_path"), SPString("arm.stl")>>,
                            <<SPString("mesh_scale"), SPFloat64("2.5")>>,
                            <<SPString("mesh_type"), SPInt64(0, 1)>>,
                            <<SPString("visualize_zone"), SPBool(TRUE)>>,
                            <<SPString("zone"), SPFloat64("2.5")>> >>)

RenderMetaInputs ==
    { MapUnknown, MetaZone, MetaZoneFlagOnly, MetaZoneSizeOnly,
      MetaMeshFlagOnly, MetaMeshPathOnly, MetaZoneAsString, MetaBoth }

\* SPTransformStamped as main.rs reads it; the transform is copied verbatim
\* and is modelled by a token naming its translation and rotation
FrameRecord(child, active, metadata) ==
    [ child_frame_id   |-> child,
      parent_frame_id  |-> "world",
      transform        |-> "pose_of_" \o child,
      active_transform |-> active,
      metadata         |-> metadata ]

\* the stores over FrameIds: at most one record per child frame
Scenarios ==
    UNION { { { FrameRecord(c, g[c][1], g[c][2]) : c \in D } :
                g \in [D -> BOOLEAN \X RenderMetaInputs] } :
            D \in SUBSET FrameIds }

Streams == {"active", "static", "zone", "mesh"}

(***************************************************************************)
(* State.                                                                  *)
(***************************************************************************)
VARIABLES
    main_pc,            \* position of main
    actor_pc,           \* the task running redis_state_manager
    store,              \* the transform store the actor owns
    scenario,           \* what the loader finds under `path`
    queue,              \* the mpsc channel (tx, rx)
    reply,              \* the oneshot channel (response_tx, response_rx)
    render_pc,          \* position of visualization_server
    frames_local,       \* the records of the snapshot not yet iterated over
    id,                 \* the marker id counter
    active_transforms, static_transforms, mesh_markers, zone_markers,
    clock,              \* the reading of the ROS clock
    snapshot,           \* ghost: the snapshot this iteration received
    pubLog,             \* ghost: the publish calls of this iteration
    loadOutcome,        \* ghost: how the actor handled LoadTransformScenario
    laterTick,          \* ghost: an earlier iteration of the loop has ended
    dec_pc,             \* position of a call of decode_metadata on its own
    dec_input,          \* the map_value that call is given
    dec_output          \* the metadata that call returns

renderVars == <<render_pc, frames_local, id, active_transforms,
                static_transforms, mesh_markers, zone_markers, snapshot,
                pubLog, laterTick>>
actorVars == <<actor_pc, store, loadOutcome>>
decodeVars == <<dec_pc, dec_input, dec_output>>
pipelineVars == <<main_pc, actor_pc, store, scenario, queue, reply, render_pc,
                  frames_local, id, active_transforms, static_transforms,
                  mesh_markers, zone_markers, clock, snapshot, pubLog,
                  loadOutcome, laterTick>>
vars == <<pipelineVars, decodeVars>>

NoReply == [state |-> "none", frames |-> {}]
EmptyLog == [s \in Streams |-> <<>>]

\* the commands of StateManagement that main.rs sends
LoadTransformScenario == [cmd |-> "LoadTransformScenario"]
GetAllTransforms == [cmd |-> "GetAllTransforms"]

Init ==
    /\ main_pc = "setup"
    /\ actor_pc = "not_spawned"
    /\ store = {}
    /\ scenario \in Scenarios
    /\ queue = <<>>
    /\ reply = NoReply
    /\ render_pc = "not_spawned"
    /\ frames_local = {}
    /\ id = 0
    /\ active_transforms = <<>>
    /\ static_transforms = <<>>
    /\ mesh_markers = <<>>
    /\ zone_markers = <<>>
    /\ clock = 0
    /\ snapshot = {}
    /\ pubLog = EmptyLog
    /\ loadOutcome = "pending"
    /\ laterTick = FALSE
    /\ dec_pc = "idle"
    /\ dec_input = MapUnknown
    /\ dec_output = DefaultMetadata

\* the process lives until main returns or panics
ProcessAlive == main_pc \notin {"exited", "panicked"}

(***************************************************************************)
(* main.                                                                   *)
(***************************************************************************)
\* main with the render task spawned before the load command is sent
MainOrderSpawnFirst ==
    <<"setup", "spawn_actor", "create_endpoints", "spawn_render",
      "send_load", "spin">>

\* the statements of main in program order
MainOrder ==
    <<"setup", "spawn_actor", "send_load", "create_endpoints",
      "spawn_render", "spin">>

\* the statement of main after `step`
MainAfter(step) ==
    LET k == CHOOSE j \in 1..Len(MainOrder) : MainOrder[j] = step
    IN  MainOrder[k + 1]

\* Context::create()?, Node::create(..)?, mpsc::channel(32)
MainSetup ==
    /\ main_pc = "setup"
    /\ \/ main_pc' = MainAfter("setup")
       \/ main_pc' = "exited"
    /\ UNCHANGED decodeVars
    /\ UNCHANGED <<actorVars, scenario, queue, reply, renderVars, clock>>

\* tokio::task::spawn(redis_state_manager(rx, State::new()))
MainSpawnActor ==
    /\ main_pc = "spawn_actor"
    /\ main_pc' = MainAfter("spawn_actor")
    /\ actor_pc' = "running"
    /\ UNCHANGED decodeVars
    /\ UNCHANGED <<store, loadOutcome, scenario, queue, reply, renderVars,
                   clock>>

\* tx.send(LoadTransformScenario(path)).await.expect("failed"): the send
\* waits for room in the channel and fails once the receiver is gone
MainSendLoad ==
    /\ main_pc = "send_load"
    /\ \/ /\ actor_pc = "terminated"
          /\ main_pc' = "panicked"
          /\ UNCHANGED queue
       \/ /\ actor_pc # "terminated"
          /\ Len(queue) < ChannelCapacity
          /\ queue' = Append(queue, LoadTransformScenario)
          /\ main_pc' = MainAfter("send_load")
    /\ UNCHANGED decodeVars
    /\ UNCHANGED <<actorVars, scenario, reply, renderVars, clock>>

\* create_wall_timer(..)? and the four create_publisher(..)?
MainCreateEndpoints ==
    /\ main_pc = "create_endpoints"
    /\ \/ main_pc' = MainAfter("create_endpoints")
       \/ main_pc' = "exited"
    /\ UNCHANGED decodeVars
    /\ UNCHANGED <<actorVars, scenario, queue, reply, renderVars, clock>>

\* the task starts by waiting for the timer
RenderStartWaitTick == "timer_wait"

\* where visualization_server starts: at the first statement of its loop
RenderStart == "loop_top"

\* tokio::task::spawn(visualization_server(.., tx_clone, timer))
MainSpawnRender ==
    /\ main_pc = "spawn_render"
    /\ main_pc' = MainAfter("spawn_render")
    /\ render_pc' = RenderStart
    /\ UNCHANGED decodeVars
    /\ UNCHANGED <<actorVars, scenario, queue, reply, frames_local, id,
                   active_transforms, static_transforms, mesh_markers,
                   zone_markers, snapshot, pubLog, laterTick, clock>>

(***************************************************************************)
(* The state-manager actor, redis_state_manager of micro_sp: it takes the  *)
(* commands off the channel one at a time, in the order they were sent.    *)
(***************************************************************************)
\* what becomes of a pending one-shot reply when its sender is dropped
DropReply(r) == IF r.state = "pending" THEN [r EXCEPT !.state = "dropped"]
                ELSE r

ActorLoad ==
    /\ ProcessAlive
    /\ actor_pc = "running"
    /\ queue # <<>>
    /\ Head(queue) = LoadTransformScenario
    /\ \/ /\ store' = scenario
          /\ loadOutcome' = "ok"
          /\ actor_pc' = "running"
          /\ queue' = Tail(queue)
          /\ UNCHANGED reply
       \/ /\ loadOutcome' = "failed"
          /\ UNCHANGED store
          /\ \/ /\ actor_pc' = "running"
                /\ queue' = Tail(queue)
                /\ UNCHANGED reply
             \/ /\ actor_pc' = "terminated"
                /\ queue' = <<>>
                /\ reply' = DropReply(reply)
    /\ UNCHANGED decodeVars
    /\ UNCHANGED <<main_pc, scenario, renderVars, clock>>

ActorGetAllTransforms ==
    /\ ProcessAlive
    /\ actor_pc = "running"
    /\ queue # <<>>
    /\ Head(queue) = GetAllTransforms
    /\ queue' = Tail(queue)
    /\ \/ reply' = [state |-> "sent", frames |-> store]
       \/ reply' = DropReply(reply)
    /\ UNCHANGED decodeVars
    /\ UNCHANGED <<main_pc, actorVars, scenario, renderVars, clock>>

\* the actor's task ends: rx is dropped, and with it the queued commands
\* and the reply senders they carry
ActorTerminate ==
    /\ ProcessAlive
    /\ actor_pc = "running"
    /\ actor_pc' = "terminated"
    /\ queue' = <<>>
    /\ reply' = DropReply(reply)
    /\ UNCHANGED decodeVars
    /\ UNCHANGED <<main_pc, store, loadOutcome, scenario, renderVars, clock>>


(***************************************************************************)
(* visualization_server: the body of the loop over the snapshot.           *)
(***************************************************************************)
\* the TransformStamped pushed for a frame
TransformEntry(frame, time_stamp) ==
    [ stamp          |-> time_stamp,
      frame_id       |-> frame.parent_frame_id,
      child_frame_id |-> frame.child_frame_id,
      transform      |-> frame.transform ]

\* if frame.active_transform { active_transforms.push(..) }
ActiveAfter(list, frame, time_stamp) ==
    IF frame.active_transform
    THEN Append(list, TransformEntry(frame, time_stamp))
    ELSE list

\* the static push outside the else branch
StaticAfterAlways(list, frame, time_stamp) ==
    Append(list, TransformEntry(frame, time_stamp))

\* else { static_transforms.push(..) }
StaticAfter(list, frame, time_stamp) ==
    IF frame.active_transform
    THEN list
    ELSE Append(list, TransformEntry(frame, time_stamp))

\* the mesh branch without the test of visualize_mesh
MeshEligiblePathOnly(metadata) == metadata.mesh_path.some

\* if metadata.visualize_mesh { match metadata.mesh_path { Some(path) => ..
MeshEligible(metadata) ==
    metadata.visualize_mesh /\ metadata.mesh_path.some

\* the zone branch without the test of zone
ZoneEligibleFlagOnly(metadata) == metadata.visualize_zone

\* if metadata.visualize_zone { if !(metadata.zone == 0.0) { ..
ZoneEligible(metadata) ==
    metadata.visualize_zone /\ ~FloatIsZero(metadata.zone)

\* the mesh branch without its increment
IdAfterMeshStale(n, metadata) == n

\* id = id + 1 in the mesh branch
IdAfterMesh(n, metadata) == IF MeshEligible(metadata) THEN n + 1 ELSE n

\* the zone branch without its increment
IdAfterZoneStale(n, metadata) == n

\* id = id + 1 in the zone branch
IdAfterZone(n, metadata) == IF ZoneEligible(metadata) THEN n + 1 ELSE n

\* mesh_scale on the three axes whatever it is
MeshScaleNoSentinel(metadata) ==
    LET c == CastF64(metadata.mesh_scale) IN <<c, c, c>>

\* scale: mesh_scale on the three axes, 1.0 when mesh_scale is 0.0
MeshScale(metadata) ==
    LET c == IF ~FloatIsZero(metadata.mesh_scale)
             THEN CastF64(metadata.mesh_scale)
             ELSE "1.0"
    IN  <<c, c, c>>

\* a resource only for the marker type that shows a mesh file
MeshResourceForMeshOnly(metadata) ==
    IF metadata.mesh_type = DefaultMeshType
    THEN "file://" \o metadata.mesh_path.v[1]
    ELSE ""

\* mesh_resource: format!("file://{}", path), path the Some of mesh_path
MeshResource(metadata) == "file://" \o metadata.mesh_path.v[1]

MeshMarker(frame, metadata, n) ==
    [ frame_id      |-> frame.child_frame_id,
      id            |-> n,
      type_         |-> metadata.mesh_type,
      lifetime      |-> MarkerLifetimeSec,
      scale         |-> MeshScale(metadata),
      color         |-> <<metadata.mesh_r, metadata.mesh_g, metadata.mesh_b,
                          metadata.mesh_a>>,
      mesh_resource |-> MeshResource(metadata) ]

ZoneMarker(frame, metadata, n) ==
    [ frame_id      |-> frame.child_frame_id,
      id            |-> n,
      type_         |-> ZoneMarkerType,
      lifetime      |-> MarkerLifetimeSec,
      scale         |-> <<metadata.zone, metadata.zone, metadata.zone>>,
      color         |-> <<"0.0", "255.0", "0.0", "0.15">>,
      mesh_resource |-> "" ]

\* a failed request skips the iteration and waits for the timer
ExpectFailedSkipTick == "timer_wait"

\* a failed request is taken for an empty snapshot
ExpectFailedCarryOn == "for_frames"

\* where the task is after an .expect("failed") on an Err: it has panicked
ExpectFailed == "panicked"

\* the top of the loop: fresh vectors, a fresh one-shot channel, and the
\* request sent to the actor
RenderRequest ==
    /\ ProcessAlive
    /\ render_pc = "loop_top"
    /\ mesh_markers' = <<>>
    /\ zone_markers' = <<>>
    /\ active_transforms' = <<>>
    /\ static_transforms' = <<>>
    /\ pubLog' = EmptyLog
    /\ snapshot' = {}
    /\ frames_local' = {}
    /\ \/ /\ actor_pc = "terminated"
          /\ render_pc' = ExpectFailed
          /\ UNCHANGED <<queue, reply>>
       \/ /\ actor_pc # "terminated"
          /\ Len(queue) < ChannelCapacity
          /\ queue' = Append(queue, GetAllTransforms)
          /\ reply' = [state |-> "pending", frames |-> {}]
          /\ render_pc' = "await_reply"
    /\ UNCHANGED decodeVars
    /\ UNCHANGED <<main_pc, actorVars, scenario, id, laterTick, clock>>

\* let frames_local = response_rx.await.expect("failed"); let mut id = 0
RenderReceive ==
    /\ ProcessAlive
    /\ render_pc = "await_reply"
    /\ \/ /\ reply.state = "sent"
          /\ frames_local' = reply.frames
          /\ snapshot' = reply.frames
          /\ id' = 0
          /\ render_pc' = "for_frames"
       \/ /\ reply.state = "dropped"
          /\ render_pc' = ExpectFailed
          /\ UNCHANGED <<frames_local, snapshot, id>>
    /\ reply' = NoReply
    /\ UNCHANGED decodeVars
    /\ UNCHANGED <<main_pc, actorVars, scenario, queue, active_transforms,
                   static_transforms, mesh_markers, zone_markers, pubLog,
                   laterTick, clock>>

\* one iteration of `for (_, frame) in frames_local`, in the order the
\* HashMap yields its entries; the clock is read in every iteration
RenderFrame ==
    /\ ProcessAlive
    /\ render_pc = "for_frames"
    /\ \E frame \in frames_local :
         LET time_stamp == clock
             metadata == decode_metadata(frame.metadata)
             id1 == IdAfterMesh(id, metadata)
             id2 == IdAfterZone(id1, metadata)
         IN  /\ active_transforms' =
                    ActiveAfter(active_transforms, frame, time_stamp)
             /\ static_transforms' =
                    StaticAfter(static_transforms, frame, time_stamp)
             /\ mesh_markers' =
                    IF MeshEligible(metadata)
                    THEN Append(mesh_markers, MeshMarker(frame, metadata, id1))
                    ELSE mesh_markers
             /\ zone_markers' =
                    IF ZoneEligible(metadata)
                    THEN Append(zone_markers, ZoneMarker(frame, metadata, id2))
                    ELSE zone_markers
             /\ id' = id2
             /\ frames_local' = frames_local \ {frame}
    /\ UNCHANGED decodeVars
    /\ UNCHANGED <<main_pc, actorVars, scenario, queue, reply, render_pc,
                   snapshot, pubLog, laterTick, clock>>

(***************************************************************************)
(* visualization_server: the four publishes and the timer.                 *)
(***************************************************************************)
\* a publish that is skipped for an empty message
PublishLogAfterSkipEmpty(log, stream, ok, msg) ==
    IF msg = <<>> THEN log
    ELSE [log EXCEPT ![stream] = Append(@, [ok |-> ok, msg |-> msg])]

\* what a publish call adds to the record of this iteration's publishes
PublishLogAfter(log, stream, ok, msg) ==
    [log EXCEPT ![stream] = Append(@, [ok |-> ok, msg |-> msg])]

\* a publish whose error is returned (publish(&msg)?)
PcAfterPublishPropagate(ok, next) == IF ok THEN next ELSE "returned_err"

\* match publisher.publish(&msg) { Ok(()) => (), Err(e) => log_error!(..) }
PcAfterPublish(ok, next) == next

Publish(stream, msg, at, next) ==
    /\ ProcessAlive
    /\ render_pc = at
    /\ \E ok \in BOOLEAN :
         /\ pubLog' = PublishLogAfter(pubLog, stream, ok, msg)
         /\ render_pc' = PcAfterPublish(ok, next)
    /\ UNCHANGED decodeVars
    /\ UNCHANGED <<main_pc, actorVars, scenario, queue, reply, frames_local,
                   id, active_transforms, static_transforms, mesh_markers,
                   zone_markers, snapshot, laterTick, clock>>

\* the loop over the snapshot is done: the messages are built
RenderBuildMessages ==
    /\ ProcessAlive
    /\ render_pc = "for_frames"
    /\ frames_local = {}
    /\ render_pc' = "publish_active"
    /\ UNCHANGED decodeVars
    /\ UNCHANGED <<main_pc, actorVars, scenario, queue, reply, frames_local,
                   id, active_transforms, static_transforms, mesh_markers,
                   zone_markers, snapshot, pubLog, laterTick, clock>>

RenderPublishActive ==
    Publish("active", active_transforms, "publish_active", "publish_static")

RenderPublishStatic ==
    Publish("static", static_transforms, "publish_static", "publish_zone")

\* the timer awaited after the third publish
RenderPublishZoneThenTimer ==
    Publish("zone", zone_markers, "publish_zone", "timer_wait")

RenderPublishZone ==
    Publish("zone", zone_markers, "publish_zone", "publish_mesh")

RenderPublishMesh ==
    Publish("mesh", mesh_markers, "publish_mesh", "timer_wait")

\* timer.tick().await returns Ok: the wall timer is served by
\* node.spin_once, which main calls in its spin loop. The iteration ends
\* and its messages are dropped
RenderTimerTick ==
    /\ ProcessAlive
    /\ render_pc = "timer_wait"
    /\ main_pc = "spin"
    /\ render_pc' = "loop_top"
    /\ mesh_markers' = <<>>
    /\ zone_markers' = <<>>
    /\ active_transforms' = <<>>
    /\ static_transforms' = <<>>
    /\ pubLog' = EmptyLog
    /\ snapshot' = {}
    /\ laterTick' = TRUE
    /\ UNCHANGED decodeVars
    /\ UNCHANGED <<main_pc, actorVars, scenario, queue, reply, frames_local,
                   id, clock>>

\* timer.tick().await? returns Err: visualization_server returns it
RenderTimerError ==
    /\ ProcessAlive
    /\ render_pc = "timer_wait"
    /\ render_pc' = "returned_err"
    /\ UNCHANGED decodeVars
    /\ UNCHANGED <<main_pc, actorVars, scenario, queue, reply, frames_local,
                   id, active_transforms, static_transforms, mesh_markers,
                   zone_markers, snapshot, pubLog, laterTick, clock>>

\* the ROS clock advances
ClockAdvance ==
    /\ ProcessAlive
    /\ clock < MaxClock
    /\ clock' = clock + 1
    /\ UNCHANGED decodeVars
    /\ UNCHANGED <<main_pc, actorVars, scenario, queue, reply, renderVars>>

Next ==
    \/ MainSetup
    \/ MainSpawnActor
    \/ MainSendLoad
    \/ MainCreateEndpoints
    \/ MainSpawnRender
    \/ ActorLoad
    \/ ActorGetAllTransforms
    \/ ActorTerminate
    \/ RenderRequest
    \/ RenderReceive
    \/ RenderFrame
    \/ RenderBuildMessages
    \/ RenderPublishActive
    \/ RenderPublishStatic
    \/ RenderPublishZone
    \/ RenderPublishMesh
    \/ RenderTimerTick
    \/ RenderTimerError
    \/ ClockAdvance

Spec == Init /\ [][Next]_vars


(***************************************************************************)
(* The program under fair scheduling, with a timer that never fails: every *)
(* task that can take a step is polled in the end, and the timer fires.    *)
(***************************************************************************)
\* three stores: none, one record, two records with both kinds of marker
LiveScenarios ==
    { {},
      {FrameRecord("tool0", TRUE, MetaBoth)},
      {FrameRecord("tool0", TRUE, MetaBoth),
       FrameRecord("box", FALSE, MetaZoneAsString)} }

LiveInit == Init /\ scenario \in LiveScenarios

LiveNext ==
    \/ MainSetup
    \/ MainSpawnActor
    \/ MainSendLoad
    \/ MainCreateEndpoints
    \/ MainSpawnRender
    \/ ActorLoad
    \/ ActorGetAllTransforms
    \/ ActorTerminate
    \/ RenderRequest
    \/ RenderReceive
    \/ RenderFrame
    \/ RenderBuildMessages
    \/ RenderPublishActive
    \/ RenderPublishStatic
    \/ RenderPublishZone
    \/ RenderPublishMesh
    \/ RenderTimerTick
    \/ ClockAdvance

LiveFairness ==
    /\ WF_vars(MainSetup)
    /\ WF_vars(MainSpawnActor)
    /\ WF_vars(MainSendLoad)
    /\ WF_vars(MainCreateEndpoints)
    /\ WF_vars(MainSpawnRender)
    /\ WF_vars(ActorLoad)
    /\ WF_vars(ActorGetAllTransforms)
    /\ WF_vars(RenderRequest)
    /\ WF_vars(RenderReceive)
    /\ WF_vars(RenderFrame)
    /\ WF_vars(RenderBuildMessages)
    /\ WF_vars(RenderPublishActive)
    /\ WF_vars(RenderPublishStatic)
    /\ WF_vars(RenderPublishZone)
    /\ WF_vars(RenderPublishMesh)
    /\ WF_vars(RenderTimerTick)

LiveSpec == LiveInit /\ [][LiveNext]_vars /\ LiveFairness

(***************************************************************************)
(* decode_metadata on its own: a call on any map of at most MaxEntries     *)
(* entries, or on a map of the scenarios.                                  *)
(***************************************************************************)
\* values of every tag, well typed for some key and ill typed for the others
BaseValues ==
    { SPString("box.stl"), SPBool(TRUE), SPInt64(0, 2), SPFloat64("2.5"),
      SPArray(<<SPString("a"), SPBool(TRUE), SPString("b")>>) }

\* the entries the maps are made of
DecodeEntries ==
    UNION {
      { <<SPString(key), v>> :
          v \in BaseValues \cup {SPUnknownOf(ExpectedTag(key))} } :
        key \in RecognizedKeys }
    \cup { <<SPString("next_frame"), v>> :
             v \in { SPArray(<<>>), SPArray(<<SPInt64(0, 1), SPBlank>>),
                     SPArray(<<SPString("b"), SPString("b")>>) } }
    \cup { <<SPString("mesh_type"), SPInt64(1, 0)>>,
           <<SPString("mesh_type"), SPInt64(-1, 2147483647)>> }
    \cup { <<SPString("zone"), SPFloat64(f)>> : f \in F64Vals }
    \cup { <<SPString("mesh_scale"), SPFloat64(f)>> : f \in {"0.0", "1e-60"} }
    \cup { <<SPString("visualize_zone"), SPBool(FALSE)>>,
           <<SPString("colour"), SPBool(TRUE)>>,
           <<SPBool(TRUE), SPString("box.stl")>>,
           <<SPUnknownOf("String"), SPBool(TRUE)>> }

DecodeInputs ==
    {MapUnknown}
    \cup { MapOf(es) :
             es \in UNION { [1..n -> DecodeEntries] : n \in 0..MaxEntries } }
    \cup RenderMetaInputs

\* the pipeline does not run; a map is handed to decode_metadata
DecodeInit ==
    /\ main_pc = "setup"
    /\ actor_pc = "not_spawned"
    /\ store = {}
    /\ scenario = {}
    /\ queue = <<>>
    /\ reply = NoReply
    /\ render_pc = "not_spawned"
    /\ frames_local = {}
    /\ id = 0
    /\ active_transforms = <<>>
    /\ static_transforms = <<>>
    /\ mesh_markers = <<>>
    /\ zone_markers = <<>>
    /\ clock = 0
    /\ snapshot = {}
    /\ pubLog = EmptyLog
    /\ loadOutcome = "pending"
    /\ laterTick = FALSE
    /\ dec_pc = "call"
    /\ dec_input \in DecodeInputs
    /\ dec_output = DefaultMetadata

\* let metadata = decode_metadata(&frame.metadata)
DecodeCall ==
    /\ dec_pc = "call"
    /\ dec_output' = decode_metadata(dec_input)
    /\ dec_pc' = "returned"
    /\ UNCHANGED <<dec_input, pipelineVars>>

DecodeNext == DecodeCall

DecodeSpec == DecodeInit /\ [][DecodeNext]_vars

(***************************************************************************)
(* Vocabulary of the properties.                                           *)
(***************************************************************************)
\* the positions of an iteration that holds a snapshot
SnapshotPcs == {"for_frames", "publish_active", "publish_static",
                "publish_zone", "publish_mesh", "timer_wait", "returned_err"}

\* the positions after the fourth publish of an iteration
PublishedPcs == {"timer_wait", "returned_err"}

\* the records of the snapshot the loop has been over
Processed == snapshot \ frames_local

\* the loop over the snapshot has ended
LoopDone == render_pc \in SnapshotPcs /\ frames_local = {}

\* how many entries of a list are about child frame c
CountFor(list, c, field) ==
    Cardinality({ k \in 1..Len(list) : list[k][field] = c })

AllTransforms == active_transforms \o static_transforms
AllMarkers == mesh_markers \o zone_markers

\* the list a stream's message is built from
ListOf(stream) ==
    CASE stream = "active" -> active_transforms
      [] stream = "static" -> static_transforms
      [] stream = "zone"   -> zone_markers
      [] stream = "mesh"   -> mesh_markers

\* the requests for a snapshot that are in the channel
Requests(q) == Len(SelectSeq(q, LAMBDA c : c = GetAllTransforms))

\* the step in which the request for a snapshot fails: the send finds the
\* receiver gone, or the reply sender was dropped
RequestFails ==
    /\ \/ render_pc = "loop_top" /\ actor_pc = "terminated"
       \/ render_pc = "await_reply" /\ reply.state = "dropped"
    /\ render_pc' # render_pc

(***************************************************************************)
(* C1. A snapshot is answered only after the load command, which main sent *)
(* before it spawned the render task, has been processed: every reply, and *)
(* every snapshot the render task holds, was taken after the load, and is  *)
(* the loaded scenario when the load succeeded.                            *)
(***************************************************************************)
C1_SnapshotAfterLoad ==
    /\ reply.state = "sent" =>
          /\ loadOutcome # "pending"
          /\ loadOutcome = "ok" => reply.frames = scenario
    /\ render_pc \in SnapshotPcs =>
          /\ loadOutcome # "pending"
          /\ loadOutcome = "ok" => snapshot = scenario
    /\ \A k \in 1..Len(queue) :
          queue[k] = LoadTransformScenario => Requests(SubSeq(queue, 1, k)) = 0

C1_Witness ==
    /\ render_pc = "for_frames"
    /\ loadOutcome = "ok"
    /\ Cardinality(scenario) = 2
    /\ snapshot = scenario

(***************************************************************************)
(* C2. Every record the loop has been over has exactly one transform       *)
(* entry, in the active list iff active_transform and otherwise in the     *)
(* static list; the two lists hold nothing else, so after the loop         *)
(* |active| + |static| is the number of records of the snapshot.           *)
(***************************************************************************)
C2_Partition ==
    /\ \A r \in Processed :
          /\ CountFor(active_transforms, r.child_frame_id, "child_frame_id")
                = IF r.active_transform THEN 1 ELSE 0
          /\ CountFor(static_transforms, r.child_frame_id, "child_frame_id")
                = IF r.active_transform THEN 0 ELSE 1
          /\ \E k \in 1..Len(AllTransforms) :
                /\ AllTransforms[k].child_frame_id = r.child_frame_id
                /\ AllTransforms[k].frame_id = r.parent_frame_id
                /\ AllTransforms[k].transform = r.transform
    /\ Len(active_transforms) + Len(static_transforms) = Cardinality(Processed)
    /\ LoopDone => Len(AllTransforms) = Cardinality(snapshot)
    /\ \A i \in 1..Len(active_transforms) : \A j \in 1..Len(static_transforms) :
          active_transforms[i].child_frame_id
             # static_transforms[j].child_frame_id

C2_Witness ==
    /\ render_pc = "timer_wait"
    /\ Len(active_transforms) = 1
    /\ Len(static_transforms) = 1
    /\ Cardinality(snapshot) = 2

(***************************************************************************)
(* C3. The ids of the mesh and zone markers of an iteration together are   *)
(* pairwise distinct and are exactly 1..N, N the number of markers; this   *)
(* holds in every iteration, so the counter restarts.                      *)
(***************************************************************************)
C3_MarkerIds ==
    LET N == Len(AllMarkers)
    IN  /\ { AllMarkers[k].id : k \in 1..N } = 1..N
        /\ \A i \in 1..N : \A j \in 1..N :
              AllMarkers[i].id = AllMarkers[j].id => i = j
        /\ render_pc \in SnapshotPcs => id = N

C3_Witness ==
    /\ laterTick
    /\ render_pc = "timer_wait"
    /\ Len(mesh_markers) = 2
    /\ Len(zone_markers) = 2
    /\ \E k \in 1..Len(AllMarkers) : AllMarkers[k].id = 1

(***************************************************************************)
(* C4. A record the loop has been over has one zone marker if its decoded  *)
(* metadata has visualize_zone and a zone other than 0.0, and none         *)
(* otherwise; the zone list holds no other marker.                         *)
(***************************************************************************)
C4_ZoneMarkerIff ==
    /\ \A r \in Processed :
          LET m == decode_metadata(r.metadata)
          IN  CountFor(zone_markers, r.child_frame_id, "frame_id")
                = IF m.visualize_zone /\ m.zone \notin {"0.0", "-0.0"}
                  THEN 1 ELSE 0
    /\ \A k \in 1..Len(zone_markers) :
          \E r \in Processed : zone_markers[k].frame_id = r.child_frame_id

C4_Witness ==
    /\ LoopDone
    /\ Len(zone_markers) = 1
    /\ \E r1 \in snapshot : \E r2 \in snapshot :
          /\ decode_metadata(r1.metadata).visualize_zone
          /\ decode_metadata(r1.metadata).zone = "0.0"
          /\ decode_metadata(r2.metadata).visualize_zone
          /\ decode_metadata(r2.metadata).zone = "0.5"

(***************************************************************************)
(* C5. A record the loop has been over has one mesh marker if its decoded  *)
(* metadata has visualize_mesh and a mesh_path, and none otherwise; the    *)
(* mesh list holds no other marker.                                        *)
(***************************************************************************)
C5_MeshMarkerIff ==
    /\ \A r \in Processed :
          LET m == decode_metadata(r.metadata)
          IN  CountFor(mesh_markers, r.child_frame_id, "frame_id")
                = IF m.visualize_mesh /\ m.mesh_path # None THEN 1 ELSE 0
    /\ \A k \in 1..Len(mesh_markers) :
          \E r \in Processed : mesh_markers[k].frame_id = r.child_frame_id

C5_Witness ==
    /\ LoopDone
    /\ Len(mesh_markers) = 1
    /\ \E r1 \in snapshot : \E r2 \in snapshot :
          /\ ~decode_metadata(r1.metadata).visualize_mesh
          /\ decode_metadata(r1.metadata).mesh_path # None
          /\ decode_metadata(r2.metadata).visualize_mesh
          /\ decode_metadata(r2.metadata).mesh_path # None


(***************************************************************************)
(* C6. As the spec has it: a failed snapshot request (the send fails, or   *)
(* the reply is never delivered) publishes nothing in that iteration and   *)
(* takes the loop back to waiting for the timer, to ask again on the next  *)
(* tick.                                                                   *)
(***************************************************************************)
C6_SkipAndRetry ==
    [][RequestFails => render_pc' = "timer_wait" /\ pubLog' = EmptyLog]_vars

(***************************************************************************)
(* C6, amended. A failed snapshot request publishes nothing in that        *)
(* iteration and ends the render task there, by the panic of               *)
(* .expect("failed"): the task does not go back to waiting for the timer   *)
(* and asks for no fresh snapshot.                                         *)
(***************************************************************************)
C6_FailedRequestEndsTask ==
    [][RequestFails =>
          /\ render_pc' = "panicked"
          /\ pubLog' = EmptyLog
          /\ Requests(queue') <= Requests(queue)]_vars

C6_Witness ==
    /\ render_pc = "panicked"
    /\ laterTick
    /\ actor_pc = "running"
    /\ pubLog = EmptyLog

(***************************************************************************)
(* C7. Once the actor has terminated, the send or the await of the render  *)
(* task that fails is fatal: the task ends in that step, has published     *)
(* nothing in that iteration, and from then on sends no request and        *)
(* publishes nothing.                                                      *)
(***************************************************************************)
C7_ActorGoneIsFatal ==
    [][/\ (actor_pc = "terminated" /\ RequestFails) =>
             /\ render_pc' = "panicked"
             /\ pubLog' = EmptyLog
       /\ render_pc = "panicked" =>
             /\ render_pc' = "panicked"
             /\ pubLog = EmptyLog
             /\ pubLog' = EmptyLog
             /\ Requests(queue') <= Requests(queue)
             /\ reply' = reply]_vars

C7_Witness ==
    /\ render_pc = "panicked"
    /\ actor_pc = "terminated"
    /\ main_pc = "spin"
    /\ laterTick
    /\ clock = MaxClock

(***************************************************************************)
(* C8. In an iteration that holds a snapshot the four publishes are each   *)
(* made once, in turn, whatever the outcome of the others: a failed        *)
(* publish neither ends the task nor skips a later publish, and after the  *)
(* fourth the task waits for the timer, from where the next iteration      *)
(* starts.                                                                 *)
(***************************************************************************)
PublishedAt(pc) ==
    CASE pc = "publish_static" -> {"active"}
      [] pc = "publish_zone"   -> {"active", "static"}
      [] pc = "publish_mesh"   -> {"active", "static", "zone"}
      [] pc \in PublishedPcs   -> Streams
      [] OTHER                 -> {}

C9_EmptyPublished ==
    /\ \A s \in PublishedAt(render_pc) :
          \E k \in 1..Len(pubLog[s]) : pubLog[s][k].msg = ListOf(s)
    /\ (render_pc \in PublishedPcs /\ snapshot = {}) =>
          \A s \in Streams :
             \E k \in 1..Len(pubLog[s]) : pubLog[s][k].msg = <<>>

C9_Witness ==
    /\ render_pc = "timer_wait"
    /\ loadOutcome = "ok"
    /\ snapshot = {}
    /\ \A s \in Streams : Len(pubLog[s]) = 1 /\ pubLog[s][1].msg = <<>>

(***************************************************************************)
(* C10. As the spec has it: one timestamp is taken per iteration, so all   *)
(* transform entries of an iteration, active and static, carry the same    *)
(* stamp.                                                                  *)
(***************************************************************************)
C10_OneStampPerTick ==
    \A i \in 1..Len(AllTransforms) : \A j \in 1..Len(AllTransforms) :
       AllTransforms[i].stamp = AllTransforms[j].stamp


(***************************************************************************)
(* C11. As the spec has it: a failed load of the initial scenario is fatal *)
(* at start-up. Once the actor has failed to process LoadTransformScenario *)
(* main does not go on into its spin loop, the timer is served no more,    *)
(* and the render task publishes nothing.                                  *)
(***************************************************************************)
C11_LoadFailureIsFatal ==
    [][loadOutcome = "failed" =>
          /\ ~(main_pc # "spin" /\ main_pc' = "spin")
          /\ ~(render_pc = "timer_wait" /\ render_pc' = "loop_top")
          /\ pubLog' = EmptyLog]_vars

(***************************************************************************)
(* Properties of decode_metadata, checked under DecodeSpec.                *)
(***************************************************************************)
\* the values a 32-bit float field of the record can hold
F32Strings == {"1.0", "0.001f32"} \cup { CastF32(f) : f \in F64Vals }

\* a complete metadata record
IsMetadata(r) ==
    /\ DOMAIN r = DOMAIN DefaultMetadata
    /\ r.next_frame.some \in BOOLEAN
    /\ r.frame_type.some \in BOOLEAN
    /\ r.mesh_path.some \in BOOLEAN
    /\ r.visualize_mesh \in BOOLEAN
    /\ r.visualize_zone \in BOOLEAN
    /\ r.mesh_type \in Int
    /\ r.zone \in F64Vals
    /\ \A f \in {"mesh_scale", "mesh_r", "mesh_g", "mesh_b", "mesh_a"} :
          r[f] \in F32Strings

\* the entries of a map, none for an unset map
EntriesOf(map_value) ==
    IF map_value.known THEN map_value.entries ELSE <<>>

\* C12: decode_metadata returns a complete record for every input, and for
\* an unset map the record of defaults:
\* no next frame, no frame type, no mesh path, both flags false, zone 0.0,
\* mesh type 10, mesh scale 0.001, the four colours 1.0.
C12_DecodeTotal ==
    dec_pc = "returned" =>
      /\ IsMetadata(dec_output)
      /\ ~dec_input.known =>
            dec_output =
              [ next_frame     |-> None,
                frame_type     |-> None,
                visualize_mesh |-> FALSE,
                visualize_zone |-> FALSE,
                zone           |-> "0.0",
                mesh_type      |-> 10,
                mesh_path      |-> None,
                mesh_scale     |-> "0.001f32",
                mesh_r         |-> "1.0",
                mesh_g         |-> "1.0",
                mesh_b         |-> "1.0",
                mesh_a         |-> "1.0" ]

C12_Witness ==
    /\ dec_pc = "returned"
    /\ dec_input = MapUnknown
    /\ dec_output.mesh_type = 10

\* the entries of a map without those whose value has the wrong tag
WellTagged(entries) == SelectSeq(entries, LAMBDA e : ~Mismatch(e))

\* C13: an entry with a recognized key and a value of another tag than
\* expected changes nothing: the record is the one decoded from the map
\* without such entries, a field all of whose entries are ill tagged keeps
\* its default, and a zone given as a string leaves zone at 0.0, so that no
\* zone marker is due while a mesh marker is due exactly as without it.
C13_QuietDegradation ==
    dec_pc = "returned" =>
      LET entries == EntriesOf(dec_input)
          good    == WellTagged(entries)
      IN  /\ dec_output = decode_metadata(MapOf(good))
          /\ \A key \in RecognizedKeys :
                (\A k \in 1..Len(entries) :
                    entries[k][1] = SPString(key) => Mismatch(entries[k]))
                => dec_output[key] = DefaultMetadata[key]
          /\ (\A k \in 1..Len(entries) :
                 entries[k][1] = SPString("zone")
                   => entries[k][2].tag = "String")
             => /\ dec_output.zone = "0.0"
                /\ ~ZoneEligible(dec_output)
                /\ MeshEligible(dec_output)
                     = MeshEligible(decode_metadata(MapOf(
                         SelectSeq(entries,
                                   LAMBDA e : e[1] # SPString("zone")))))

C13_Witness ==
    /\ dec_pc = "returned"
    /\ dec_input = MetaZoneAsString
    /\ dec_output.zone = "0.0"
    /\ ~ZoneEligible(dec_output)
    /\ MeshEligible(dec_output)

\* the entries of a map that give next_frame a value: the key is
\* next_frame and the value an array with a string element
NextFrameGivers(entries) ==
    { k \in 1..Len(entries) :
        /\ entries[k][1] = SPString("next_frame")
        /\ entries[k][2].tag = "Array"
        /\ \E j \in 1..Len(entries[k][2].a) : entries[k][2].a[j].tag = "String" }

\* C18: next_frame is never Some of the empty set.  It is None unless some
\* entry of key next_frame holds an array with a string element, and then it
\* is the set of the string elements of the last such array, the other
\* elements dropped.
C18_NextFrame ==
    dec_pc = "returned" =>
      LET entries == EntriesOf(dec_input)
          givers  == NextFrameGivers(entries)
      IN  /\ dec_output.next_frame # Some({})
          /\ givers = {} => dec_output.next_frame = None
          /\ givers # {} =>
               LET last == CHOOSE k \in givers : \A j \in givers : j <= k
                   arr  == entries[last][2].a
               IN  dec_output.next_frame =
                     Some({ e.s : e \in { x \in { arr[j] : j \in 1..Len(arr) } :
                                            x.tag = "String" } })

C18_Witness ==
    /\ dec_pc = "returned"
    /\ \E k \in 1..Len(dec_input.entries) :
          /\ dec_input.entries[k][1] = SPString("next_frame")
          /\ dec_input.entries[k][2].tag = "Array"
          /\ \E j \in 1..Len(dec_input.entries[k][2].a) :
                dec_input.entries[k][2].a[j].tag # "String"
    /\ dec_output.next_frame = Some({"a", "b"})

(***************************************************************************)
(* Properties of the markers, checked under Spec.                          *)
(***************************************************************************)
\* the record of the snapshot a marker is about
RecordOf(marker) == CHOOSE r \in snapshot : r.child_frame_id = marker.frame_id

\* the mesh markers of this iteration: those in the list and those published
EmittedMeshMarkers ==
    { mesh_markers[k] : k \in 1..Len(mesh_markers) }
    \cup UNION { { pubLog["mesh"][k].msg[j] : j \in 1..Len(pubLog["mesh"][k].msg) } :
                 k \in 1..Len(pubLog["mesh"]) }

\* C14: the scale of every mesh marker has three equal components: 1.0 when
\* the decoded mesh_scale is 0.0, the decoded mesh_scale otherwise.
C14_MeshScale ==
    \A mk \in EmittedMeshMarkers :
       LET s == decode_metadata(RecordOf(mk).metadata).mesh_scale
       IN  /\ mk.scale[1] = mk.scale[2]
           /\ mk.scale[2] = mk.scale[3]
           /\ Len(mk.scale) = 3
           /\ mk.scale[1] = CASE s \in {"0.0", "-0.0"} -> "1.0"
                              [] s = "2.5"             -> "2.5"
                              [] s = "0.001f32"        -> "0.00100000004749745"

C14_Witness ==
    /\ Len(pubLog["mesh"]) = 1
    /\ \E mk1 \in EmittedMeshMarkers : \E mk2 \in EmittedMeshMarkers :
          /\ decode_metadata(RecordOf(mk1).metadata).mesh_scale = "0.0"
          /\ mk1.scale = <<"1.0", "1.0", "1.0">>
          /\ decode_metadata(RecordOf(mk2).metadata).mesh_scale = "2.5"
          /\ mk2.scale = <<"2.5", "2.5", "2.5">>

\* the locations a configuration could name as the base of the mesh files
MeshBaseLocations == {"file:/", "file:///meshes", "package://meshes"}

\* C15, as the spec has it: the resource of a mesh marker is a configured
\* base location, "/" and the decoded mesh_path, and is set only when the
\* marker's type is the one of a mesh file.
C15_ResourceJoinsBase ==
    \E base \in MeshBaseLocations :
      \A mk \in EmittedMeshMarkers :
         LET metadata == decode_metadata(RecordOf(mk).metadata)
         IN  mk.mesh_resource =
               IF mk.type_ = DefaultMeshType
               THEN base \o "/" \o metadata.mesh_path.v[1]
               ELSE ""

\* C15, as the code has it: the resource of every mesh marker is "file://"
\* followed by the decoded mesh_path, whatever the marker's type.
C15_ResourceIsFilePath ==
    \A mk \in EmittedMeshMarkers :
       LET metadata == decode_metadata(RecordOf(mk).metadata)
       IN  /\ metadata.mesh_path # None
           /\ mk.mesh_resource = "file://" \o metadata.mesh_path.v[1]

C15_Witness ==
    /\ Len(pubLog["mesh"]) = 1
    /\ \E mk1 \in EmittedMeshMarkers : \E mk2 \in EmittedMeshMarkers :
          /\ mk1.type_ = 1
          /\ mk1.mesh_resource = "file://arm.stl"
          /\ mk2.type_ = DefaultMeshType
          /\ mk2.mesh_resource = "file://box.stl"

(***************************************************************************)
(* Properties of the loop of visualization_server.                         *)
(***************************************************************************)
\* every stream has had its publish in this iteration
AllFourPublished == \A stream \in Streams : Len(pubLog[stream]) = 1

\* the render task has asked for a snapshot, holds one or has published
IterationUnderWay ==
    \/ render_pc \in {"await_reply"} \cup SnapshotPcs
    \/ Requests(queue) > 0
    \/ pubLog # EmptyLog

\* C16, as the spec has it: the loop starts by waiting for the timer, so no
\* snapshot is asked for, held or published before the timer has fired.
C16_TickBeforeRequest == IterationUnderWay => laterTick

\* C16, as the code has it: the task starts at the top of the loop and asks
\* for the snapshot at once; the timer is awaited at the end of an
\* iteration, after its four publishes, and every later iteration starts
\* with a timer fire.  A snapshot is asked for only at the top of the loop.
C16_TimerAtEndOfIteration ==
    [][/\ (render_pc = "not_spawned" /\ render_pc' # "not_spawned")
            => render_pc' = "loop_top" /\ ~laterTick'
       /\ (render_pc # "loop_top" /\ render_pc' = "loop_top")
            => \/ render_pc = "not_spawned"
               \/ render_pc = "timer_wait" /\ AllFourPublished /\ laterTick'
       /\ Requests(queue') > Requests(queue) => render_pc = "loop_top"
       /\ (render_pc # "timer_wait" /\ render_pc' = "timer_wait")
            => render_pc = "publish_mesh"]_vars

C16_Witness ==
    /\ ~laterTick
    /\ render_pc = "timer_wait"
    /\ AllFourPublished
    /\ snapshot # {}

\* the actor is there and has dropped no reply, and the process lives
ActorAnswers ==
    /\ actor_pc # "terminated"
    /\ reply.state # "dropped"
    /\ ProcessAlive

Appended(before, after) ==
    IF Len(after) > Len(before) THEN {after[Len(after)]} ELSE {}

\* C19: the markers get their ids in the order of the iteration, the mesh
\* marker before the zone marker: the markers a record adds have ids above
\* those of all markers of the records before it, and when a record adds
\* both, the zone marker's id is the mesh marker's plus one.
C19_IdsInIterationOrder ==
    [][LET newMesh == Appended(mesh_markers, mesh_markers')
           newZone == Appended(zone_markers, zone_markers')
           old     == { AllMarkers[k] : k \in 1..Len(AllMarkers) }
       IN  /\ \A n \in newMesh \cup newZone : \A o \in old : o.id < n.id
           /\ \A a \in newMesh : \A b \in newZone :
                 /\ a.frame_id = b.frame_id
                 /\ b.id = a.id + 1]_vars

C19_Witness ==
    /\ LoopDone
    /\ \E i \in 1..Len(mesh_markers) : \E j \in 1..Len(zone_markers) :
          /\ mesh_markers[i].frame_id = zone_markers[j].frame_id
          /\ mesh_markers[i].id = 2
          /\ zone_markers[j].id = 3
    /\ \E k \in 1..Len(AllMarkers) : AllMarkers[k].id = 1

\* C20: visualization_server returns the timer's error only from the wait
\* for the timer, after the four publishes of the iteration; once it has
\* returned, no snapshot is asked for and nothing more is published.
C20_TimerErrorEndsLoop ==
    [][/\ (render_pc # "returned_err" /\ render_pc' = "returned_err")
            => render_pc = "timer_wait" /\ AllFourPublished
       /\ render_pc = "returned_err"
            => /\ render_pc' = "returned_err"
               /\ pubLog' = pubLog
               /\ Requests(queue') <= Requests(queue)]_vars

C20_Witness ==
    /\ render_pc = "returned_err"
    /\ AllFourPublished
    /\ laterTick
    /\ Requests(queue) = 0

============================================================================
